---------------------------- MODULE Spec2Model ----------------------------
(***************************************************************************)
(* LinearDict (src/cirq/value/linear_dict.py): a dict subclass mapping     *)
(* vectors to complex coefficients that elides exact-zero coefficients.    *)
(*                                                                         *)
(* A coefficient is a Gaussian integer [re, im]; on such values Python's   *)
(* complex arithmetic is exact.  The underlying dict is an insertion-      *)
(* ordered sequence of entries [k, c] with distinct keys, as a Python dict *)
(* is.  The dict may hold a zero coefficient as far as the model goes:     *)
(* that it never does is a property to check, not an assumption.           *)
(*                                                                         *)
(* Objects live in a heap of three references: "x" is the container the    *)
(* program keeps, "y" is the other operand of a binary operation and "r"   *)
(* is the object a value-returning operation allocates.                    *)
(***************************************************************************)
EXTENDS Integers, Sequences, FiniteSets

\* Coefficient parts kept by the program's container stay in -MaxCoef..MaxCoef.
MaxCoef == 1
\* Longest sequence of (key, coefficient) pairs or of vectors given as input.
MaxPairs == 2
\* Largest tolerance given to clean and to approximate equality.
MaxAtol == 2

Keys == {"A", "B"}

---------------------------------------------------------------------------
(* Scalars: complex numbers with integer parts.                            *)

Zero == [re |-> 0, im |-> 0]
One == [re |-> 1, im |-> 0]
MinusOne == [re |-> -1, im |-> 0]
ImagUnit == [re |-> 0, im |-> 1]
Two == [re |-> 2, im |-> 0]

\* Python's c == 0 for a complex (or real) c.
IsZero(c) == c.re = 0 /\ c.im = 0

CAdd(c, d) == [re |-> c.re + d.re, im |-> c.im + d.im]
CSub(c, d) == [re |-> c.re - d.re, im |-> c.im - d.im]
CNeg(c) == [re |-> -c.re, im |-> -c.im]
CMul(c, d) == [re |-> c.re * d.re - c.im * d.im, im |-> c.re * d.im + c.im * d.re]

NormSq(c) == c.re * c.re + c.im * c.im

\* abs(c) <= atol and abs(c) < atol, compared on the squares.
AbsLeq(c, atol) == atol >= 0 /\ NormSq(c) <= atol * atol
AbsLt(c, atol) == atol > 0 /\ NormSq(c) < atol * atol

\* 1 / s for a scalar of modulus 1: the conjugate.
Recip(s) == [re |-> s.re, im |-> -s.im]

---------------------------------------------------------------------------
(* The built-in dict the class derives from (the super() calls).           *)

RECURSIVE DictIndex(_, _, _)
DictIndex(d, k, i) ==
    IF i > Len(d) THEN 0
    ELSE IF d[i].k = k THEN i
    ELSE DictIndex(d, k, i + 1)

DictContains(d, k) == DictIndex(d, k, 1) # 0

DictGet(d, k, default) ==
    IF DictContains(d, k) THEN d[DictIndex(d, k, 1)].c ELSE default

\* dict.__setitem__: an existing key keeps its place, a new key goes last.
DictSet(d, k, c) ==
    IF DictContains(d, k)
    THEN [d EXCEPT ![DictIndex(d, k, 1)] = [k |-> k, c |-> c]]
    ELSE Append(d, [k |-> k, c |-> c])

\* dict.__delitem__ of a key the dict holds.
DictDel(d, k) ==
    LET i == DictIndex(d, k, 1)
    IN  SubSeq(d, 1, i - 1) \o SubSeq(d, i + 1, Len(d))

\* dict.update with a sequence of pairs: one assignment per pair, in order.
RECURSIVE DictUpdate(_, _, _)
DictUpdate(d, pairs, i) ==
    IF i > Len(pairs) THEN d
    ELSE DictUpdate(DictSet(d, pairs[i].k, pairs[i].c), pairs, i + 1)

DictKeys(d) == {d[i].k : i \in 1..Len(d)}

---------------------------------------------------------------------------
(* Outcomes of a call: a value, or the exception it raises.                *)

Ok(v) == [err |-> "none", val |-> v]
Raise(e) == [err |-> e, val |-> <<>>]

VARIABLES
    heap,          \* [x, y, r]: the underlying dict of each object
    interpreter,   \* the CPython release the program runs on (see DictCopy)
    pc,            \* "idle", or "returned" right after a call
    call,          \* the last call: operation, operand reference, arguments
    pre,           \* the heap when the last call was made
    outcome        \* the last call's outcome: exception, reference or value

vars == <<heap, interpreter, pc, call, pre, outcome>>

---------------------------------------------------------------------------
(* LinearDict, method by method, on the underlying dict d of self.         *)

\* The entries clean() collects: those with abs(c) <= atol.
negligible(d, atol) == SelectSeq(d, LAMBDA e : AbsLeq(e.c, atol))

RECURSIVE DelEach(_, _, _)
DelEach(d, vs, i) ==
    IF i > Len(vs) THEN d ELSE DelEach(DictDel(d, vs[i].k), vs, i + 1)

\* clean() with abs(c) < atol in place of abs(c) <= atol.
clean_strict(d, atol) ==
    DelEach(d, SelectSeq(d, LAMBDA e : AbsLt(e.c, atol)), 1)

clean(d, atol) == DelEach(d, negligible(d, atol), 1)

RECURSIVE SumPairs(_, _, _)
SumPairs(d, pairs, i) ==
    IF i > Len(pairs) THEN d
    ELSE SumPairs(DictSet(d, pairs[i].k,
                          CAdd(DictGet(d, pairs[i].k, Zero), pairs[i].c)),
                  pairs, i + 1)

\* update() adding each pair's coefficient to the stored one.
update_summing(d, pairs) == clean(SumPairs(d, pairs, 1), 0)

\* update(pairs): dict.update, then clean(atol=0).
update(d, pairs) == clean(DictUpdate(d, pairs, 1), 0)

\* __init__(terms) for a plain mapping or sequence of pairs.
init(terms) == update(<<>>, terms)

\* dict.fromkeys(vectors, complex(coefficient)), then __init__.
fromkeys(vectors, coefficient) ==
    init([i \in 1..Len(vectors) |-> [k |-> vectors[i], c |-> coefficient]])

(* dict.copy() and dict.update(other) applied to a LinearDict.  LinearDict *)
(* overrides __iter__ and keys(), and what the C code of dict does with    *)
(* such a subclass depends on the CPython release:                         *)
(*   "table"           it copies the hash table of any dict subclass       *)
(*                     (releases before the fix of bpo-34320, 3.6.7);      *)
(*   "keys"            it reads the object through its keys() method       *)
(*                     (3.6.7 to 3.6.15);                                  *)
(*   "keysUnlessEmpty" as "keys", but an empty dict is copied without      *)
(*                     looking at it, and keys() of an empty LinearDict    *)
(*                     returns (3.7 and later, 3.11 among them).           *)
(* LinearDict.keys() calls self.copy(), which calls dict.copy() again, so  *)
(* a read through keys() never returns: RecursionError is raised.          *)
Interpreters == {"table", "keys", "keysUnlessEmpty"}

DictCopy(d) ==
    CASE interpreter = "table" -> Ok(d)
      [] interpreter = "keys" -> Raise("RecursionError")
      [] interpreter = "keysUnlessEmpty" ->
            IF d # <<>> THEN Raise("RecursionError") ELSE Ok(d)

copy(d) ==
    LET c == DictCopy(d)
    IN  IF c.err # "none" THEN c ELSE Ok(init(c.val))

\* items(), keys(), values(), __iter__: over a cleaned copy of self.
items(d) ==
    LET snapshot == copy(d)
    IN  IF snapshot.err # "none" THEN snapshot ELSE Ok(clean(snapshot.val, 0))

keys(d) ==
    LET it == items(d)
    IN  IF it.err # "none" THEN it
        ELSE Ok([i \in 1..Len(it.val) |-> it.val[i].k])

values(d) ==
    LET it == items(d)
    IN  IF it.err # "none" THEN it
        ELSE Ok([i \in 1..Len(it.val) |-> it.val[i].c])

\* update(other) with a LinearDict: dict.update reads other as DictCopy does.
update_from(d, other) ==
    LET o == DictCopy(other)
    IN  IF o.err # "none" THEN o ELSE Ok(update(d, o.val))

get(d, vector, default) ==
    IF IsZero(DictGet(d, vector, Zero)) THEN default ELSE DictGet(d, vector, Zero)

contains(d, vector) ==
    DictContains(d, vector) /\ ~IsZero(DictGet(d, vector, Zero))

getitem(d, vector) == DictGet(d, vector, Zero)

setitem(d, vector, coefficient) ==
    IF ~IsZero(coefficient) THEN DictSet(d, vector, coefficient)
    ELSE IF DictContains(d, vector) THEN DictDel(d, vector)
    ELSE d

len(d) ==
    LET it == items(d)
    IN  IF it.err # "none" THEN it
        ELSE Ok(Len(SelectSeq(it.val, LAMBDA e : ~IsZero(e.c))))

bool(d) ==
    LET vs == values(d)
    IN  IF vs.err # "none" THEN vs
        ELSE Ok(~(\A i \in 1..Len(vs.val) : IsZero(vs.val[i])))

\* The loop of __iadd__ over the snapshot other.items().
RECURSIVE IAddLoop(_, _, _)
IAddLoop(d, its, i) ==
    IF i > Len(its) THEN d
    ELSE LET old_coefficient == DictGet(d, its[i].k, Zero)
             new_coefficient == CAdd(old_coefficient, its[i].c)
         IN  IAddLoop(DictSet(d, its[i].k, new_coefficient), its, i + 1)

iadd(d, other) ==
    LET it == items(other)
    IN  IF it.err # "none" THEN it
        ELSE Ok(clean(IAddLoop(d, it.val, 1), 0))

add(d, other) ==
    LET result == copy(d)
    IN  IF result.err # "none" THEN result ELSE iadd(result.val, other)

\* The loop of __isub__ over the snapshot other.items().
RECURSIVE ISubLoop(_, _, _)
ISubLoop(d, its, i) ==
    IF i > Len(its) THEN d
    ELSE LET old_coefficient == DictGet(d, its[i].k, Zero)
             new_coefficient == CSub(old_coefficient, its[i].c)
         IN  ISubLoop(DictSet(d, its[i].k, new_coefficient), its, i + 1)

isub(d, other) ==
    LET it == items(other)
    IN  IF it.err # "none" THEN it
        ELSE Ok(clean(ISubLoop(d, it.val, 1), 0))

sub(d, other) ==
    LET result == copy(d)
    IN  IF result.err # "none" THEN result ELSE isub(result.val, other)

neg(d) ==
    LET it == items(d)
    IN  IF it.err # "none" THEN it
        ELSE Ok(init([i \in 1..Len(it.val) |->
                        [k |-> it.val[i].k, c |-> CNeg(it.val[i].c)]]))

\* The loop of __imul__ over the snapshot iter(self): self[vector] *= a.
RECURSIVE IMulLoop(_, _, _, _)
IMulLoop(d, vs, a, i) ==
    IF i > Len(vs) THEN d
    ELSE IMulLoop(setitem(d, vs[i], CMul(getitem(d, vs[i]), a)), vs, a, i + 1)

imul(d, a) ==
    LET vs == keys(d)
    IN  IF vs.err # "none" THEN vs
        ELSE Ok(clean(IMulLoop(d, vs.val, a, 1), 0))

mul(d, a) ==
    LET result == copy(d)
    IN  IF result.err # "none" THEN result ELSE imul(result.val, a)

rmul(d, a) == mul(d, a)

\* __truediv__ that does not fail on a zero scalar and multiplies by 0.
truediv_unchecked(d, a) == mul(d, Recip(a))

\* 1 / a raises before __mul__ is called.
truediv(d, a) ==
    IF IsZero(a) THEN Raise("ZeroDivisionError") ELSE mul(d, Recip(a))

\* set(self.keys()) | set(other.keys()) of __eq__ and _approx_eq_.
all_vs(d, other) ==
    LET ks == keys(d)
        os == keys(other)
    IN  IF ks.err # "none" THEN ks
        ELSE IF os.err # "none" THEN os
        ELSE Ok({ks.val[i] : i \in 1..Len(ks.val)}
                \cup {os.val[i] : i \in 1..Len(os.val)})

\* isLinearDict: whether other is a LinearDict (isinstance).
eq(d, other, isLinearDict) ==
    IF ~isLinearDict THEN Raise("NotImplemented")
    ELSE LET vs == all_vs(d, other)
         IN  IF vs.err # "none" THEN vs
             ELSE Ok(\A v \in vs.val : getitem(d, v) = getitem(other, v))

ne(d, other, isLinearDict) ==
    IF ~isLinearDict THEN Raise("NotImplemented")
    ELSE LET e == eq(d, other, isLinearDict)
         IN  IF e.err # "none" THEN e ELSE Ok(~e.val)

approx_eq(d, other, isLinearDict, atol) ==
    IF ~isLinearDict THEN Raise("NotImplemented")
    ELSE LET vs == all_vs(d, other)
         IN  IF vs.err # "none" THEN vs
             ELSE Ok(\A v \in vs.val :
                        AbsLt(CSub(getitem(d, v), getitem(other, v)), atol))

---------------------------------------------------------------------------
(* Inputs.                                                                 *)

\* Coefficients given as input: 0, 1 and i.
InCoefs == {Zero, One, ImagUnit}
\* Scalars given to *= and *: 0, 1, -1, i and 2.
MulScalars == {Zero, One, MinusOne, ImagUnit, Two}
\* Scalars given to /: 0 and the scalars whose reciprocal is an exact
\* Gaussian integer.
DivScalars == {Zero, One, MinusOne, ImagUnit, CNeg(ImagUnit)}
Atols == -1..MaxAtol

Pairs == [k : Keys, c : InCoefs]
PairLists == UNION {[1..n -> Pairs] : n \in 0..MaxPairs}
VectorLists == UNION {[1..n -> Keys] : n \in 0..MaxPairs}
\* The containers an operand can be: LinearDict(pairs) for an input list.
OperandStores == {init(p) : p \in PairLists}

InRange(d) ==
    \A i \in 1..Len(d) :
        /\ d[i].c.re \in -MaxCoef..MaxCoef
        /\ d[i].c.im \in -MaxCoef..MaxCoef

---------------------------------------------------------------------------
(* The program: one container x, and calls on it.                          *)

NoCall ==
    [op |-> "none", other |-> "none", key |-> "none", coef |-> Zero,
     pairs |-> <<>>, vectors |-> <<>>, atol |-> 0]
NoOutcome == [err |-> "none", ref |-> "none", val |-> FALSE]
EmptyHeap == [x |-> <<>>, y |-> <<>>, r |-> <<>>]

Init ==
    /\ heap = EmptyHeap
    /\ interpreter \in Interpreters
    /\ pc = "idle"
    /\ call = NoCall
    /\ pre = EmptyHeap
    /\ outcome = NoOutcome

\* The heap a call with operand `other` starts from: y is the operand o.
Bind(other, o) == [heap EXCEPT !.y = IF other = "y" THEN o ELSE <<>>]

\* A call that mutates x in place and returns self.
InPlace(c, h0, res) ==
    /\ pc = "idle"
    /\ res.err = "none" => InRange(res.val)
    /\ pc' = "returned"
    /\ call' = c
    /\ pre' = h0
    /\ heap' = IF res.err = "none" THEN [h0 EXCEPT !.x = res.val] ELSE h0
    /\ outcome' = [err |-> res.err,
                   ref |-> IF res.err = "none" THEN "x" ELSE "none",
                   val |-> FALSE]
    /\ UNCHANGED interpreter

\* A call that returns a new container, allocated at r.
Fresh(c, h0, res) ==
    /\ pc = "idle"
    /\ pc' = "returned"
    /\ call' = c
    /\ pre' = h0
    /\ heap' = IF res.err = "none" THEN [h0 EXCEPT !.r = res.val] ELSE h0
    /\ outcome' = [err |-> res.err,
                   ref |-> IF res.err = "none" THEN "r" ELSE "none",
                   val |-> FALSE]
    /\ UNCHANGED interpreter

\* A call that returns a truth value.
Observe(c, h0, res) ==
    /\ pc = "idle"
    /\ pc' = "returned"
    /\ call' = c
    /\ pre' = h0
    /\ heap' = h0
    /\ outcome' = [err |-> res.err, ref |-> "none",
                   val |-> IF res.err = "none" THEN res.val ELSE FALSE]
    /\ UNCHANGED interpreter

\* x = LinearDict(pairs): x is a new object, built from an empty dict
Construct ==
    \E p \in PairLists :
        InPlace([NoCall EXCEPT !.op = "init", !.pairs = p],
                EmptyHeap, Ok(init(p)))

\* x = LinearDict.fromkeys(vectors, coefficient): x is a new object
FromKeys ==
    \E vs \in VectorLists, c \in InCoefs :
        InPlace([NoCall EXCEPT !.op = "fromkeys", !.vectors = vs, !.coef = c],
                EmptyHeap, Ok(fromkeys(vs, c)))

\* x.update(pairs)
Update ==
    \E p \in PairLists :
        InPlace([NoCall EXCEPT !.op = "update", !.pairs = p],
                Bind("none", <<>>), Ok(update(heap.x, p)))

\* x.update(other) for a LinearDict other
UpdateFrom ==
    \E other \in {"x", "y"}, o \in OperandStores :
        /\ other = "x" => o = <<>>
        /\ LET h0 == Bind(other, o)
           IN  InPlace([NoCall EXCEPT !.op = "update_from", !.other = other],
                       h0, update_from(h0.x, h0[other]))

\* x[key] = coefficient
SetItem ==
    \E k \in Keys, c \in InCoefs :
        InPlace([NoCall EXCEPT !.op = "setitem", !.key = k, !.coef = c],
                Bind("none", <<>>), Ok(setitem(heap.x, k, c)))

\* x.clean(atol=atol)
Clean ==
    \E atol \in Atols :
        InPlace([NoCall EXCEPT !.op = "clean", !.atol = atol],
                Bind("none", <<>>), Ok(clean(heap.x, atol)))

\* x += other
IAdd ==
    \E other \in {"x", "y"}, o \in OperandStores :
        /\ other = "x" => o = <<>>
        /\ LET h0 == Bind(other, o)
           IN  InPlace([NoCall EXCEPT !.op = "iadd", !.other = other],
                       h0, iadd(h0.x, h0[other]))

\* x -= other
ISub ==
    \E other \in {"x", "y"}, o \in OperandStores :
        /\ other = "x" => o = <<>>
        /\ LET h0 == Bind(other, o)
           IN  InPlace([NoCall EXCEPT !.op = "isub", !.other = other],
                       h0, isub(h0.x, h0[other]))

\* x *= a
IMul ==
    \E a \in MulScalars :
        InPlace([NoCall EXCEPT !.op = "imul", !.coef = a],
                Bind("none", <<>>), imul(heap.x, a))

\* x + other
Add ==
    \E other \in {"x", "y"}, o \in OperandStores :
        /\ other = "x" => o = <<>>
        /\ LET h0 == Bind(other, o)
           IN  Fresh([NoCall EXCEPT !.op = "add", !.other = other],
                     h0, add(h0.x, h0[other]))

\* x - other
Sub ==
    \E other \in {"x", "y"}, o \in OperandStores :
        /\ other = "x" => o = <<>>
        /\ LET h0 == Bind(other, o)
           IN  Fresh([NoCall EXCEPT !.op = "sub", !.other = other],
                     h0, sub(h0.x, h0[other]))

\* -x
Neg ==
    Fresh([NoCall EXCEPT !.op = "neg"], Bind("none", <<>>), neg(heap.x))

\* x * a
Mul ==
    \E a \in MulScalars :
        Fresh([NoCall EXCEPT !.op = "mul", !.coef = a],
              Bind("none", <<>>), mul(heap.x, a))

\* a * x
RMul ==
    \E a \in MulScalars :
        Fresh([NoCall EXCEPT !.op = "rmul", !.coef = a],
              Bind("none", <<>>), rmul(heap.x, a))

\* x / a
TrueDiv ==
    \E a \in DivScalars :
        Fresh([NoCall EXCEPT !.op = "truediv", !.coef = a],
              Bind("none", <<>>), truediv(heap.x, a))

\* x.__eq__(other); other "num" is a value that is no LinearDict
Eq ==
    \E other \in {"x", "y", "num"}, o \in OperandStores :
        /\ other # "y" => o = <<>>
        /\ LET h0 == Bind(other, o)
           IN  Observe([NoCall EXCEPT !.op = "eq", !.other = other], h0,
                       eq(h0.x, IF other = "num" THEN <<>> ELSE h0[other],
                          other # "num"))

\* x.__ne__(other)
Ne ==
    \E other \in {"x", "y", "num"}, o \in OperandStores :
        /\ other # "y" => o = <<>>
        /\ LET h0 == Bind(other, o)
           IN  Observe([NoCall EXCEPT !.op = "ne", !.other = other], h0,
                       ne(h0.x, IF other = "num" THEN <<>> ELSE h0[other],
                          other # "num"))

\* x._approx_eq_(other, atol)
ApproxEq ==
    \E other \in {"x", "y", "num"}, o \in OperandStores, atol \in Atols :
        /\ other # "y" => o = <<>>
        /\ LET h0 == Bind(other, o)
           IN  Observe([NoCall EXCEPT !.op = "approx_eq", !.other = other,
                                      !.atol = atol], h0,
                       approx_eq(h0.x,
                                 IF other = "num" THEN <<>> ELSE h0[other],
                                 other # "num", atol))

\* x + (-x): the operand y is the container -x returns
AddNeg ==
    LET n == neg(heap.x)
        c == [NoCall EXCEPT !.op = "add_neg", !.other = "y"]
    IN  IF n.err # "none" THEN Fresh(c, Bind("none", <<>>), n)
        ELSE LET h0 == Bind("y", n.val)
             IN  Fresh(c, h0, add(h0.x, h0.y))

\* (x + other) * a == x * a + other * a
distribute(d, other, a) ==
    LET sum == add(d, other)
        lhs == IF sum.err # "none" THEN sum ELSE mul(sum.val, a)
        da == mul(d, a)
        oa == mul(other, a)
        rhs == IF da.err # "none" THEN da
               ELSE IF oa.err # "none" THEN oa
               ELSE add(da.val, oa.val)
    IN  IF lhs.err # "none" THEN lhs
        ELSE IF rhs.err # "none" THEN rhs
        ELSE eq(lhs.val, rhs.val, TRUE)

Distribute ==
    \E other \in {"x", "y"}, o \in OperandStores, a \in MulScalars :
        /\ other = "x" => o = <<>>
        /\ LET h0 == Bind(other, o)
           IN  Observe([NoCall EXCEPT !.op = "distribute", !.other = other,
                                      !.coef = a],
                       h0, distribute(h0.x, h0[other], a))

\* r[key] = 0 for a key r holds, r[key] = 1 for one it does not, on the
\* container the last call returned
MutateResult ==
    \E k \in Keys :
        /\ pc = "returned"
        /\ outcome.ref = "r"
        /\ pc' = "mutated"
        /\ heap' = [heap EXCEPT !.r = setitem(heap.r, k,
                                    IF contains(heap.r, k) THEN Zero ELSE One)]
        /\ UNCHANGED <<interpreter, call, pre, outcome>>

\* The statement is over: the operand and the result go out of scope.
Return ==
    /\ pc \in {"returned", "mutated"}
    /\ pc' = "idle"
    /\ heap' = [heap EXCEPT !.y = <<>>, !.r = <<>>]
    /\ call' = NoCall
    /\ pre' = EmptyHeap
    /\ outcome' = NoOutcome
    /\ UNCHANGED interpreter

Next ==
    \/ Construct
    \/ FromKeys
    \/ Update
    \/ UpdateFrom
    \/ SetItem
    \/ Clean
    \/ IAdd
    \/ ISub
    \/ IMul
    \/ Add
    \/ Sub
    \/ Neg
    \/ Mul
    \/ RMul
    \/ TrueDiv
    \/ Eq
    \/ Ne
    \/ ApproxEq
    \/ AddNeg
    \/ Distribute
    \/ MutateResult
    \/ Return

Spec == Init /\ [][Next]_vars

---------------------------------------------------------------------------
(* Properties.  a is the container x as the call found it (pre.x), a' is   *)
(* x after the call, b is the operand of the call.                         *)

Refs == {"x", "y", "r"}
Returned(ops) == pc = "returned" /\ call.op \in ops
\* The operand of the last call, as the call found it.
Operand == pre[call.other]
\* The last pair of a sequence with key k (0: none).
LastIndex(pairs, k) ==
    IF \E i \in 1..Len(pairs) : pairs[i].k = k
    THEN CHOOSE i \in 1..Len(pairs) :
            /\ pairs[i].k = k
            /\ \A j \in (i + 1)..Len(pairs) : pairs[j].k # k
    ELSE 0

\* C1 (zero-elision): in every state, after any sequence of constructions,
\* update, subscript writes, +=, -=, *= and clean, no object's underlying
\* dict holds an entry whose coefficient is exactly 0, and membership,
\* subscript read, get, iteration and len see exactly the stored entries.
C1_ZeroElision ==
    \A ref \in Refs :
        LET d == heap[ref]
        IN  /\ \A i \in 1..Len(d) : ~IsZero(d[i].c)
            /\ \A k \in Keys :
                  /\ contains(d, k) = DictContains(d, k)
                  /\ DictContains(d, k) => ~IsZero(getitem(d, k))
                  /\ DictContains(d, k) => get(d, k, Zero) = getitem(d, k)
            /\ items(d).err = "none" => items(d).val = d
            /\ len(d).err = "none" => len(d).val = Len(d)

\* C1's case: on an interpreter that reads a LinearDict through keys(), a
\* subscript write or an update returned, a key that x held before it is
\* gone because its coefficient became 0, and x still holds another key.
C1_Witness ==
    /\ Returned({"setitem", "update"})
    /\ interpreter # "table"
    /\ outcome.err = "none"
    /\ heap.x # <<>>
    /\ \E k \in Keys : DictContains(pre.x, k) /\ ~DictContains(heap.x, k)

\* C2 (operators leave their operands alone): -a, a + b, a - b, a * s,
\* s * a and a / s (s not 0) return a new container and leave x and the
\* operand as they were, also for a + a and a - a, and also after a later
\* subscript write to the result.
C2_OperandsUntouched ==
    (/\ pc \in {"returned", "mutated"}
     /\ call.op \in {"add", "sub", "neg", "mul", "rmul", "truediv"}
     /\ ~(call.op = "truediv" /\ IsZero(call.coef)))
    => /\ outcome.err = "none"
       /\ outcome.ref = "r"
       /\ heap.x = pre.x
       /\ heap.y = pre.y

\* C3 (in-place addition is key-wise): after a += b every key k has
\* a'[k] = a[k] + b[k], is absent when the sum is 0 and present when it is
\* not, and b is unchanged; a -= b likewise with a[k] - b[k].
C3_KeywiseSum ==
    Returned({"iadd", "isub"})
    => /\ outcome.err = "none"
       /\ \A k \in Keys :
             LET sum == IF call.op = "iadd"
                        THEN CAdd(getitem(pre.x, k), getitem(Operand, k))
                        ELSE CSub(getitem(pre.x, k), getitem(Operand, k))
             IN  /\ getitem(heap.x, k) = sum
                 /\ DictContains(heap.x, k) = ~IsZero(sum)
       /\ call.other = "y" => heap.y = pre.y

\* C4 (update and construction overwrite): after a.update(pairs), a key
\* that occurs in pairs has the coefficient of its last pair, and is absent
\* when that coefficient is 0; any other key is as it was before; and
\* LinearDict(pairs) is update(pairs) on an empty container.
C4_LastWriteWins ==
    Returned({"update", "init"})
    => LET a == IF call.op = "update" THEN pre.x ELSE <<>>
       IN  /\ outcome.err = "none"
           /\ \A k \in Keys :
                 LET last == LastIndex(call.pairs, k)
                 IN  IF last # 0
                     THEN /\ getitem(heap.x, k) = call.pairs[last].c
                          /\ DictContains(heap.x, k)
                               = ~IsZero(call.pairs[last].c)
                     ELSE /\ getitem(heap.x, k) = getitem(a, k)
                          /\ DictContains(heap.x, k) = DictContains(a, k)

\* C4's case: update returned, its pairs name a key twice with different
\* coefficients, the last of them 0, and x held that key before.
C4_Witness ==
    /\ Returned({"update"})
    /\ \E i, j \in 1..Len(call.pairs) :
          /\ i < j
          /\ call.pairs[i].k = call.pairs[j].k
          /\ ~IsZero(call.pairs[i].c)
          /\ IsZero(call.pairs[j].c)
          /\ DictContains(pre.x, call.pairs[j].k)
          /\ ~DictContains(heap.x, call.pairs[j].k)

\* C5 (exact equality): a == b is true iff a[k] = b[k] for every key k,
\* a != b is its negation, and comparing with a value that is no
\* container gives NotImplemented.
C5_ExactEquality ==
    Returned({"eq", "ne"})
    => IF call.other = "num"
       THEN outcome.err = "NotImplemented"
       ELSE LET same == \A k \in Keys :
                            getitem(pre.x, k) = getitem(Operand, k)
            IN  /\ outcome.err = "none"
                /\ outcome.val = IF call.op = "eq" THEN same ELSE ~same

\* C6 (approximate equality is strict): approx_eq(a, b, atol) is true iff
\* |a[k] - b[k]| < atol for every key k of a or b; a difference of exactly
\* atol makes it false; with no key it is true for every atol.
C6_StrictApprox ==
    (Returned({"approx_eq"}) /\ call.other # "num")
    => /\ outcome.err = "none"
       /\ outcome.val =
            \A k \in DictKeys(pre.x) \cup DictKeys(Operand) :
                LET diff == CSub(getitem(pre.x, k), getitem(Operand, k))
                IN  call.atol > 0 /\ NormSq(diff) < call.atol * call.atol

\* C7 (division by zero): a / 0 fails with ZeroDivisionError for every
\* container a, returns no container and leaves a unchanged.
C7_DivisionByZero ==
    (Returned({"truediv"}) /\ IsZero(call.coef))
    => /\ outcome.err = "ZeroDivisionError"
       /\ outcome.ref = "none"
       /\ heap = pre

\* C7's case: x / 0 returned for a container x that holds entries.
C7_Witness ==
    /\ Returned({"truediv"})
    /\ IsZero(call.coef)
    /\ pre.x # <<>>

\* C8 (additive inverse): a + (-a) and a - a are empty: falsy, of length
\* 0, holding no key, and equal to a new empty container.
C8_AdditiveInverse ==
    (\/ Returned({"add_neg"})
     \/ Returned({"sub"}) /\ call.other = "x")
    => /\ outcome.err = "none"
       /\ bool(heap.r) = Ok(FALSE)
       /\ len(heap.r) = Ok(0)
       /\ \A k \in Keys : ~contains(heap.r, k)
       /\ eq(heap.r, init(<<>>), TRUE) = Ok(TRUE)

\* C9 (distributivity): (a + b) * s == a * s + b * s evaluates to true for
\* all containers a and b and every scalar s.
C9_Distributivity ==
    Returned({"distribute"})
    => /\ outcome.err = "none"
       /\ outcome.val = TRUE

\* C10 (the operand may be the container itself): a += a doubles every
\* coefficient and keeps the key set, a -= a leaves a empty, and a *= s
\* multiplies the coefficient of every key of a by s exactly once.
C10_SelfOperand ==
    /\ (Returned({"iadd"}) /\ call.other = "x")
       => /\ outcome.err = "none"
          /\ DictKeys(heap.x) = DictKeys(pre.x)
          /\ \A k \in Keys :
                getitem(heap.x, k) = CAdd(getitem(pre.x, k), getitem(pre.x, k))
    /\ (Returned({"isub"}) /\ call.other = "x")
       => /\ outcome.err = "none"
          /\ heap.x = <<>>
    /\ Returned({"imul"})
       => /\ outcome.err = "none"
          /\ \A k \in Keys :
                /\ getitem(heap.x, k) = CMul(getitem(pre.x, k), call.coef)
                /\ DictContains(heap.x, k) = ~IsZero(getitem(heap.x, k))

===========================================================================
